---------------------------- MODULE Spec2Model ----------------------------
(***************************************************************************)
(* The filter / cross-tabulate / aggregate pipeline of the dashboards       *)
(* simple_dashboard.py (three selectors, statistics box, heat map and       *)
(* county map), DashV2.py (the same behind a memoized filter) and           *)
(* create_dashboard.py (two selectors, heat map only), and the probes of    *)
(* compatibility_test.py.                                                   *)
(*                                                                          *)
(* A Python str is a sequence of one-character strings, so that str -> int  *)
(* and int -> str conversions are computed rather than assumed.  A Python   *)
(* value of dynamic type is a record [t |-> type name, v |-> payload].      *)
(* A DataFrame is a sequence of rows, each row a record carrying its pandas *)
(* index label in the field "index".  A percentage is kept exact, either as *)
(* a fraction [num, den] or, where the code rounds to one decimal, as an    *)
(* integer number of tenths.                                                *)
(***************************************************************************)
EXTENDS Integers, Sequences, FiniteSets, TLC

VARIABLES
    script,                  \* which dashboard script is running
    df,                      \* the full record set, loaded once
    classification_selector, \* value of the Classification Select widget
    age_band_selector,       \* value of the Age Band Select widget
    county_selector,         \* value of the County Select widget
    request,                 \* arguments of the last update_dashboard call
    raised,                  \* exception that reached its caller, or "none"
    filtered_df,             \* the Filtered Subset of the last call
    pivot_data,              \* the Cross-tab Table of the last call
    stats_box,               \* the statistics of the last call
    va_counties,             \* the Geographic Aggregate of the last call
    event,                   \* what ran last: the load, a widget event, a call
    cache,                   \* the entries of pn.cache for get_filtered_data
    Store_current_backend,   \* hv.Store.current_backend
    pc,                      \* the probe create_compatibility_test runs next
    tests                    \* test1 .. test6, as far as they are bound

vars == <<script, df, classification_selector, age_band_selector,
          county_selector, request, raised, filtered_df, pivot_data,
          stats_box, va_counties, event, cache, Store_current_backend, pc,
          tests>>

\* The state of compatibility_test.py.
compat_vars == <<Store_current_backend, pc, tests>>

\* The state of the dashboards.
dashboard_vars ==
    <<script, df, classification_selector, age_band_selector, county_selector,
      request, raised, filtered_df, pivot_data, stats_box, va_counties, event,
      cache>>

----------------------------------------------------------------------------
(* Bounds of the model.                                                     *)

\* Largest number of rows of the loaded dataset.
MaxRows == 2

----------------------------------------------------------------------------
(* Python values.                                                           *)

PyStr(s) == [t |-> "str", v |-> s]
PyNone == [t |-> "NoneType", v |-> <<>>]
NaN == [t |-> "nan", v |-> <<>>]

\* The literal 'All' of the selectors.
All == PyStr(<<"A", "l", "l">>)

\* Python ==, for the values used here (str, None, NaN): NaN equals nothing.
PyEq(a, b) == a.t = b.t /\ a.t # "nan" /\ a.v = b.v

\* A name bound to no value: the call that would have bound it raised.
Unbound == "unbound"

Digits == <<"0", "1", "2", "3", "4", "5", "6", "7", "8", "9">>

IsDigit(c) == \E d \in 1..10 : Digits[d] = c

DigitValue(c) == (CHOOSE d \in 1..10 : Digits[d] = c) - 1

\* str(n) of an int, also numpy's astype(str) of an integer column.
RECURSIVE IntToStr(_)
IntToStr(n) ==
    IF n < 0 THEN <<"-">> \o IntToStr(0 - n)
    ELSE IF n < 10 THEN <<Digits[n + 1]>>
    ELSE IntToStr(n \div 10) \o <<Digits[(n % 10) + 1]>>

IsSpace(c) == c \in {" ", "\t", "\n", "\r"}

\* str.strip(), which int(str) applies first.
RECURSIVE Strip(_)
Strip(s) ==
    IF s = <<>> THEN s
    ELSE IF IsSpace(Head(s)) THEN Strip(Tail(s))
    ELSE IF IsSpace(s[Len(s)]) THEN Strip(SubSeq(s, 1, Len(s) - 1))
    ELSE s

\* The digits of an integer literal: digits, single underscores between them.
IsDigitString(s) ==
    /\ s # <<>>
    /\ IsDigit(s[1]) /\ IsDigit(s[Len(s)])
    /\ \A i \in 1..Len(s) : IsDigit(s[i]) \/ s[i] = "_"
    /\ \A i \in 1..(Len(s) - 1) : ~(s[i] = "_" /\ s[i + 1] = "_")

RECURSIVE DigitStringValue(_)
DigitStringValue(s) ==
    IF s = <<>> THEN 0
    ELSE IF s[Len(s)] = "_" THEN DigitStringValue(SubSeq(s, 1, Len(s) - 1))
    ELSE 10 * DigitStringValue(SubSeq(s, 1, Len(s) - 1)) + DigitValue(s[Len(s)])

\* The outcome of an expression: a value, or the exception it raises.
Returns(x) == [exc |-> "none", val |-> x]
Raises(e) == [exc |-> e, val |-> Unbound]

\* Mutant of int: what cannot be converted becomes 0 instead of raising.
Mutant_int(x) ==
    IF x.t = "NoneType" THEN Returns(0)
    ELSE LET s == Strip(x.v)
             signed == s # <<>> /\ Head(s) \in {"+", "-"}
             body == IF signed THEN Tail(s) ELSE s
         IN  IF ~IsDigitString(body) THEN Returns(0)
             ELSE IF signed /\ Head(s) = "-"
                  THEN Returns(0 - DigitStringValue(body))
                  ELSE Returns(DigitStringValue(body))

\* int(x) for x a str or None: base-10 literal with optional sign and
\* surrounding whitespace; anything else is a ValueError, None a TypeError.
int(x) ==
    IF x.t = "NoneType" THEN Raises("TypeError")
    ELSE LET s == Strip(x.v)
             signed == s # <<>> /\ Head(s) \in {"+", "-"}
             body == IF signed THEN Tail(s) ELSE s
         IN  IF ~IsDigitString(body) THEN Raises("ValueError")
             ELSE IF signed /\ Head(s) = "-"
                  THEN Returns(0 - DigitStringValue(body))
                  ELSE Returns(DigitStringValue(body))

----------------------------------------------------------------------------
(* Loading: read_csv and the derived AGE_BAND column.                       *)

\* range(start, stop, step) arguments of bins and labels.
BinStart == 0
BinStop == 105
BinStep == 5
LabelStop == 100

\* list(range(start, stop, step)) for step > 0.
RECURSIVE Range(_, _, _)
Range(start, stop, step) ==
    IF start >= stop THEN <<>>
    ELSE <<start>> \o Range(start + step, stop, step)

bins == Range(BinStart, BinStop, BinStep)

\* [f'{i}-{i+4}' for i in range(0, 100, 5)]
labels ==
    LET starts == Range(BinStart, LabelStop, BinStep)
    IN  [j \in 1..Len(starts) |->
            IntToStr(starts[j]) \o <<"-">> \o IntToStr(starts[j] + 4)]

\* pd.cut(x, bins, labels, right=False) of one value: the label of the
\* interval [bins[j], bins[j+1]) holding it, NaN when none does.
cut(age) ==
    IF \E j \in 1..(Len(bins) - 1) : bins[j] <= age /\ age < bins[j + 1]
    THEN PyStr(labels[CHOOSE j \in 1..(Len(bins) - 1) :
                          bins[j] <= age /\ age < bins[j + 1]])
    ELSE NaN

\* The values the columns of sample_dataset.csv take in the model.
Classifications == {0, 1}
Ages == <<3, 7, 120>>
Places ==
    << [COUNTY |-> <<"A">>, COUNTY_CODE |-> 51001, State |-> <<"V", "A">>],
       [COUNTY |-> <<"B">>, COUNTY_CODE |-> 51001, State |-> <<"V", "A">>],
       [COUNTY |-> <<"D">>, COUNTY_CODE |-> 51999, State |-> <<"V", "A">>],
       [COUNTY |-> <<"E">>, COUNTY_CODE |-> 24001, State |-> <<"M", "D">>] >>

\* The n-th line a CSV file can hold, n in 0..NumLines-1.
NumLines == Cardinality(Classifications) * Len(Ages) * Len(Places)

CsvLine(n) ==
    LET place == Places[(n \div (2 * Len(Ages))) + 1]
    IN  [CLASSIFICATION |-> n % 2,
         AGE |-> Ages[((n \div 2) % Len(Ages)) + 1],
         COUNTY |-> place.COUNTY,
         COUNTY_CODE |-> place.COUNTY_CODE,
         State |-> place.State]

\* The CSV files of at most MaxRows lines, up to the order of their lines.
CsvFiles ==
    {f \in UNION {[1..n -> 0..(NumLines - 1)] : n \in 0..MaxRows} :
        \A i \in 1..(Len(f) - 1) : f[i] <= f[i + 1]}

\* df = pd.read_csv(...); df['AGE_BAND'] = pd.cut(df['AGE'], ...)
LoadDataset(f) ==
    [i \in 1..Len(f) |->
        LET line == CsvLine(f[i])
        IN  [index |-> i - 1,
             CLASSIFICATION |-> line.CLASSIFICATION,
             AGE |-> line.AGE,
             COUNTY |-> line.COUNTY,
             COUNTY_CODE |-> line.COUNTY_CODE,
             State |-> line.State,
             AGE_BAND |-> cut(line.AGE)]]

----------------------------------------------------------------------------
(* simple_dashboard.py: the pipeline.                                       *)

\* data[data[column] == value] for the CLASSIFICATION column (integers).
WhereClassification(data, value) ==
    LET Test(r) == r.CLASSIFICATION = value
    IN  SelectSeq(data, Test)

\* data[data['AGE_BAND'] == value]: a row without a band matches nothing.
WhereAgeBand(data, value) ==
    LET Test(r) == PyEq(r.AGE_BAND, value)
    IN  SelectSeq(data, Test)

\* data[data['COUNTY'] == value]
WhereCounty(data, value) ==
    LET Test(r) == PyEq(PyStr(r.COUNTY), value)
    IN  SelectSeq(data, Test)

\* Mutant of get_filtered_data: the county constraint is not applied.
Mutant_get_filtered_data_no_county(data, selected_classification, selected_age_band, selected_county) ==
    LET wanted == int(selected_classification)
        byClass == IF ~PyEq(selected_classification, All)
                   THEN WhereClassification(data, wanted.val)
                   ELSE data
        byBand == IF ~PyEq(selected_age_band, All)
                  THEN WhereAgeBand(byClass, selected_age_band)
                  ELSE byClass
    IN  IF ~PyEq(selected_classification, All) /\ wanted.exc # "none"
        THEN Raises(wanted.exc)
        ELSE Returns(byBand)

\* Mutant of get_filtered_data: 'All' in the county place is taken for the
\* name of a county.
Mutant_get_filtered_data_all_is_value(data, selected_classification, selected_age_band, selected_county) ==
    LET wanted == int(selected_classification)
        byClass == IF ~PyEq(selected_classification, All)
                   THEN WhereClassification(data, wanted.val)
                   ELSE data
        byBand == IF ~PyEq(selected_age_band, All)
                  THEN WhereAgeBand(byClass, selected_age_band)
                  ELSE byClass
    IN  IF ~PyEq(selected_classification, All) /\ wanted.exc # "none"
        THEN Raises(wanted.exc)
        ELSE Returns(WhereCounty(byBand, selected_county))

get_filtered_data(data, selected_classification, selected_age_band, selected_county) ==
    LET wanted == int(selected_classification)
        byClass == IF ~PyEq(selected_classification, All)
                   THEN WhereClassification(data, wanted.val)
                   ELSE data
        byBand == IF ~PyEq(selected_age_band, All)
                  THEN WhereAgeBand(byClass, selected_age_band)
                  ELSE byClass
        byCounty == IF ~PyEq(selected_county, All)
                    THEN WhereCounty(byBand, selected_county)
                    ELSE byBand
    IN  IF ~PyEq(selected_classification, All) /\ wanted.exc # "none"
        THEN Raises(wanted.exc)
        ELSE Returns(byCounty)

\* Mutant of data_after_get_filtered_data: no copy is taken and the rows that
\* fail a filter are dropped from the frame that was handed in.
Mutant_data_after_get_filtered_data(data, selected_classification, selected_age_band, selected_county) ==
    LET got == get_filtered_data(data, selected_classification,
                                 selected_age_band, selected_county)
    IN  IF got.exc = "none" THEN got.val ELSE data

\* The frame handed to get_filtered_data, as the call leaves it: the function
\* works on data.copy() and every filter binds a new frame to its local
\* name, so no row of data is added, dropped or written.
data_after_get_filtered_data(data, selected_classification, selected_age_band, selected_county) ==
    data

\* round-half-even of num/den (den > 0), the rounding of numpy's round.
RoundHalfEven(num, den) ==
    LET q == num \div den
        r == num % den
    IN  IF 2 * r < den THEN q
        ELSE IF 2 * r > den THEN q + 1
        ELSE IF q % 2 = 0 THEN q ELSE q + 1

\* f'{n:,}' of a non-negative int.
RECURSIVE FormatThousands(_)
FormatThousands(n) ==
    IF n < 1000 THEN IntToStr(n)
    ELSE LET low == n % 1000
             pad == IF low < 10 THEN <<"0", "0">>
                    ELSE IF low < 100 THEN <<"0">> ELSE <<>>
         IN  FormatThousands(n \div 1000) \o <<",">> \o pad \o IntToStr(low)

\* f'{x:.1f}' of the non-negative number num/den.
FormatOneDecimal(num, den) ==
    LET tenths == RoundHalfEven(10 * num, den)
    IN  IntToStr(tenths \div 10) \o <<".">> \o IntToStr(tenths % 10)

\* Mutant of create_stats_box: the ratio is not multiplied by 100.
Mutant_create_stats_box(data) ==
    LET total_count == Len(data)
        ones_count == Len(WhereClassification(data, 1))
        ones_percentage ==
            IF total_count > 0
            THEN [num |-> ones_count, den |-> total_count]
            ELSE [num |-> 0, den |-> 1]
    IN  [total_count |-> total_count,
         ones_count |-> ones_count,
         ones_percentage |-> ones_percentage,
         panes |-> [title |-> "### Classification Stats",
                    total_class_1 |-> FormatThousands(ones_count),
                    class_1_percentage |->
                        FormatOneDecimal(ones_percentage.num,
                                         ones_percentage.den) \o <<"%">>]]

create_stats_box(data) ==
    LET total_count == Len(data)
        ones_count == Len(WhereClassification(data, 1))
        ones_percentage ==
            IF total_count > 0
            THEN [num |-> ones_count * 100, den |-> total_count]
            ELSE [num |-> 0, den |-> 1]
    IN  [total_count |-> total_count,
         ones_count |-> ones_count,
         ones_percentage |-> ones_percentage,
         panes |-> [title |-> "### Classification Stats",
                    total_class_1 |-> FormatThousands(ones_count),
                    class_1_percentage |->
                        FormatOneDecimal(ones_percentage.num,
                                         ones_percentage.den) \o <<"%">>]]

\* Mutant of crosstab: normalize='all', each count divided by the number of
\* all tabulated rows.
Mutant_crosstab_normalize_all(data) ==
    LET kept == {i \in 1..Len(data) : data[i].AGE_BAND.t # "nan"}
        index == {data[i].CLASSIFICATION : i \in kept}
        columns == {data[i].AGE_BAND.v : i \in kept}
        count(c, b) ==
            Cardinality({i \in kept : /\ data[i].CLASSIFICATION = c
                                      /\ data[i].AGE_BAND.v = b})
    IN  [index |-> index,
         columns |-> columns,
         values |-> [c \in index |->
                        [b \in columns |->
                            [num |-> count(c, b) * 100,
                             den |-> Cardinality(kept)]]]]

\* Mutant of crosstab: a pair that never occurs gets no cell.
Mutant_crosstab_sparse(data) ==
    LET kept == {i \in 1..Len(data) : data[i].AGE_BAND.t # "nan"}
        index == {data[i].CLASSIFICATION : i \in kept}
        columns == {data[i].AGE_BAND.v : i \in kept}
        count(c, b) ==
            Cardinality({i \in kept : /\ data[i].CLASSIFICATION = c
                                      /\ data[i].AGE_BAND.v = b})
        margin(c) == Cardinality({i \in kept : data[i].CLASSIFICATION = c})
    IN  [index |-> index,
         columns |-> columns,
         values |-> [c \in index |->
                        [b \in {x \in columns : count(c, x) > 0} |->
                            [num |-> count(c, b) * 100, den |-> margin(c)]]]]

\* pd.crosstab(rows['CLASSIFICATION'], rows['AGE_BAND'], normalize='index')
\* * 100: rows lacking a band are left out, the classifications and bands
\* of the others label the table, each count is divided by its row's total,
\* and a pair that never occurs counts 0.
crosstab(data) ==
    LET kept == {i \in 1..Len(data) : data[i].AGE_BAND.t # "nan"}
        index == {data[i].CLASSIFICATION : i \in kept}
        columns == {data[i].AGE_BAND.v : i \in kept}
        count(c, b) ==
            Cardinality({i \in kept : /\ data[i].CLASSIFICATION = c
                                      /\ data[i].AGE_BAND.v = b})
        margin(c) == Cardinality({i \in kept : data[i].CLASSIFICATION = c})
    IN  [index |-> index,
         columns |-> columns,
         values |-> [c \in index |->
                        [b \in columns |->
                            [num |-> count(c, b) * 100, den |-> margin(c)]]]]

create_heatmap(data) == crosstab(data)

\* A number of a float column; CLASS_1_PERCENT holds tenths of a percent.
PyFloat(x) == [t |-> "float", v |-> x]
Inf == [t |-> "inf", v |-> 0]

\* Series.fillna(0) of one cell.
fillna(x) == IF x.t = "nan" THEN PyFloat(0) ELSE x

\* rows.groupby(['COUNTY_CODE', 'COUNTY']).size().reset_index(name=...):
\* one entry per (code, name) pair that occurs, with its number of rows.
GroupSize(rows) ==
    LET keys == {<<rows[i].COUNTY_CODE, rows[i].COUNTY>> : i \in 1..Len(rows)}
    IN  [k \in keys |->
            Cardinality({i \in 1..Len(rows) :
                            <<rows[i].COUNTY_CODE, rows[i].COUNTY>> = k})]

\* (CLASS_1_COUNT / TOTAL_COUNT * 100).round(1), in tenths; a zero total
\* divides by zero.
class_1_percent(ones, total) ==
    IF total.v = 0 THEN (IF ones.v = 0 THEN NaN ELSE Inf)
    ELSE PyFloat(RoundHalfEven(ones.v * 1000, total.v))

\* pd.merge(class_1_counts, total_counts, on=['COUNTY_CODE', 'COUNTY'],
\* how='outer'), fillna(0), the percentage and COUNTY_CODE as str.
CountyCounts(va_data) ==
    LET class_1_counts == GroupSize(WhereClassification(va_data, 1))
        total_counts == GroupSize(va_data)
        keys == DOMAIN class_1_counts \cup DOMAIN total_counts
        ones(k) == fillna(IF k \in DOMAIN class_1_counts
                          THEN PyFloat(class_1_counts[k]) ELSE NaN)
        total(k) == fillna(IF k \in DOMAIN total_counts
                           THEN PyFloat(total_counts[k]) ELSE NaN)
    IN  {[COUNTY_CODE |-> PyStr(IntToStr(k[1])),
          COUNTY |-> PyStr(k[2]),
          CLASS_1_COUNT |-> ones(k),
          TOTAL_COUNT |-> total(k),
          CLASS_1_PERCENT |-> class_1_percent(ones(k), total(k))] : k \in keys}

\* The polygons of tl_2024_us_county.shp the model keeps: two counties of
\* Virginia (state FIPS 51) and one of another state.
Shapefile ==
    { [GEOID |-> <<"5", "1", "0", "0", "1">>, NAME |-> "Accomack",
       STATEFP |-> <<"5", "1">>],
      [GEOID |-> <<"5", "1", "0", "0", "3">>, NAME |-> "Albemarle",
       STATEFP |-> <<"5", "1">>],
      [GEOID |-> <<"2", "4", "0", "0", "1">>, NAME |-> "Allegany",
       STATEFP |-> <<"2", "4">>] }

\* va_counties[va_counties['STATEFP'] == '51']
BoundaryUnits == {b \in Shapefile : b.STATEFP = <<"5", "1">>}

\* A comparison with NaN is false, so NaN falls through to the last branch.
get_color_for_percent(percent) ==
    IF percent.t \in {"nan", "inf"} THEN "darkblue"
    ELSE IF percent.v = 0 THEN "lightgray"
    ELSE IF percent.v < 200 THEN "lightblue"
    ELSE IF percent.v < 400 THEN "skyblue"
    ELSE IF percent.v < 600 THEN "royalblue"
    ELSE IF percent.v < 800 THEN "mediumblue"
    ELSE "darkblue"

\* One row of va_counties.merge(county_counts, left_on='GEOID',
\* right_on='COUNTY_CODE', how='left') with its three fillna(0) and its
\* colour; c is the matching county_counts row, or NaN in every column.
MergedRow(b, c) ==
    [GEOID |-> b.GEOID,
     NAME |-> b.NAME,
     COUNTY_CODE |-> c.COUNTY_CODE,
     COUNTY |-> c.COUNTY,
     CLASS_1_COUNT |-> fillna(c.CLASS_1_COUNT),
     TOTAL_COUNT |-> fillna(c.TOTAL_COUNT),
     CLASS_1_PERCENT |-> fillna(c.CLASS_1_PERCENT),
     map_color |-> get_color_for_percent(fillna(c.CLASS_1_PERCENT))]

NoMatch ==
    [COUNTY_CODE |-> NaN, COUNTY |-> NaN, CLASS_1_COUNT |-> NaN,
     TOTAL_COUNT |-> NaN, CLASS_1_PERCENT |-> NaN]

\* Mutant of LeftMerge: how='inner', a unit without a match is dropped.
Mutant_LeftMerge_inner(units, county_counts) ==
    UNION {{MergedRow(b, c) :
               c \in {x \in county_counts : x.COUNTY_CODE.v = b.GEOID}} :
           b \in units}

\* The left merge: every boundary unit once per matching county_counts row,
\* and once with NaN when none matches.
LeftMerge(units, county_counts) ==
    UNION {LET matches == {c \in county_counts : c.COUNTY_CODE.v = b.GEOID}
           IN  IF matches = {} THEN {MergedRow(b, NoMatch)}
               ELSE {MergedRow(b, c) : c \in matches} : b \in units}

create_va_map(data) ==
    LET IsVA(r) == r.State = <<"V", "A">>
        va_data == SelectSeq(data, IsVA)
    IN  LeftMerge(BoundaryUnits, CountyCounts(va_data))

\* What an update_dashboard call leaves: the exception that reached the
\* caller, or the filtered data and the tables built from it.
update_dashboard(classification, age_band, county) ==
    LET got == get_filtered_data(df, classification, age_band, county)
        data == data_after_get_filtered_data(df, classification, age_band,
                                             county)
    IN  IF got.exc # "none"
        THEN [raised |-> got.exc, df |-> data, filtered_df |-> Unbound,
              pivot_data |-> Unbound, stats_box |-> Unbound,
              va_counties |-> Unbound]
        ELSE [raised |-> "none", df |-> data, filtered_df |-> got.val,
              pivot_data |-> create_heatmap(got.val),
              stats_box |-> create_stats_box(got.val),
              va_counties |-> create_va_map(got.val)]

----------------------------------------------------------------------------
(* create_dashboard.py: two selectors and the heat map.                     *)

PyInt(n) == [t |-> "int", v |-> n]

\* create_heatmap(data, selected_classification, selected_age_band): the
\* filter is inlined on data.copy(), an absent constraint is None.
cd_create_heatmap(data, selected_classification, selected_age_band) ==
    LET byClass == IF selected_classification.t # "NoneType"
                   THEN WhereClassification(data, selected_classification.v)
                   ELSE data
        byBand == IF selected_age_band.t # "NoneType"
                  THEN WhereAgeBand(byClass, selected_age_band)
                  ELSE byClass
    IN  [data |-> data, filtered_df |-> byBand, pivot_data |-> crosstab(byBand)]

cd_update_dashboard(classification, age_band) ==
    LET wanted == int(classification)
        selected_age == IF PyEq(age_band, All) THEN PyNone ELSE age_band
    IN  IF ~PyEq(classification, All) /\ wanted.exc # "none"
        THEN [raised |-> wanted.exc, df |-> df, filtered_df |-> Unbound,
              pivot_data |-> Unbound, stats_box |-> Unbound,
              va_counties |-> Unbound]
        ELSE LET selected_class == IF PyEq(classification, All) THEN PyNone
                                   ELSE PyInt(wanted.val)
                 heatmap == cd_create_heatmap(df, selected_class, selected_age)
             IN  [raised |-> "none", df |-> heatmap.data,
                  filtered_df |-> heatmap.filtered_df,
                  pivot_data |-> heatmap.pivot_data, stats_box |-> Unbound,
                  va_counties |-> Unbound]

----------------------------------------------------------------------------
(* DashV2.py: the pipeline of simple_dashboard.py behind @pn.cache; its     *)
(* create_heatmap and create_stats_box compute what those above compute.    *)

\* Largest number of entries the model lets the cache grow to.
MaxCacheItems == 3

\* Mutant of CacheKey: the county argument is left out of the key.
Mutant_CacheKey(data, selected_classification, selected_age_band, selected_county) ==
    <<data, selected_classification, selected_age_band, All>>

\* The key under which pn.cache files a call: the hash of the arguments, the
\* frame hashed by its content.
CacheKey(data, selected_classification, selected_age_band, selected_county) ==
    <<data, selected_classification, selected_age_band, selected_county>>

\* The decorator pn.cache: a call whose key is stored returns the stored
\* value, any other call runs the function (outcome got) and stores what it
\* returns; a call that raises stores nothing.
pn_cache(store, key, got) ==
    IF key \in DOMAIN store
    THEN [exc |-> "none", val |-> store[key], cache |-> store]
    ELSE IF got.exc # "none"
    THEN [exc |-> got.exc, val |-> Unbound, cache |-> store]
    ELSE [exc |-> "none", val |-> got.val, cache |-> (key :> got.val) @@ store]

\* @pn.cache def get_filtered_data(...), its body that of simple_dashboard.
v2_get_filtered_data(store, data, selected_classification, selected_age_band, selected_county) ==
    pn_cache(store,
             CacheKey(data, selected_classification, selected_age_band,
                      selected_county),
             get_filtered_data(data, selected_classification,
                               selected_age_band, selected_county))

\* create_va_heatmap: the aggregate of create_va_map, coloured by the plot
\* from CLASS_1_PERCENT and so without the column map_color.
create_va_heatmap(data) ==
    {[f \in DOMAIN r \ {"map_color"} |-> r[f]] : r \in create_va_map(data)}

\* The visualizations update_dashboard builds of what get_filtered_data gave
\* it (got); data is df as that call left it.
v2_visualizations(got, data) ==
    IF got.exc # "none"
    THEN [raised |-> got.exc, df |-> data, filtered_df |-> Unbound,
          pivot_data |-> Unbound, stats_box |-> Unbound,
          va_counties |-> Unbound, cache |-> got.cache]
    ELSE [raised |-> "none", df |-> data, filtered_df |-> got.val,
          pivot_data |-> create_heatmap(got.val),
          stats_box |-> create_stats_box(got.val),
          va_counties |-> create_va_heatmap(got.val),
          cache |-> got.cache]

v2_update_dashboard(store, classification, age_band, county) ==
    v2_visualizations(
        v2_get_filtered_data(store, df, classification, age_band, county),
        data_after_get_filtered_data(df, classification, age_band, county))

----------------------------------------------------------------------------
(* The widgets.                                                             *)

Scripts == {"simple_dashboard", "create_dashboard"}

\* The scripts with a County selector and a Reset All Filters button.
ThreeSelectorScripts == {"simple_dashboard", "DashV2"}

\* ['All'] + sorted(np.unique(classification_array).astype(str).tolist())
classification_values(data) ==
    {All} \cup {PyStr(IntToStr(data[i].CLASSIFICATION)) : i \in 1..Len(data)}

\* np.unique(age_band_array) sorts an object array of labels and float NaN:
\* comparing a label with NaN is a TypeError, which ends the script while
\* it is being loaded.
unique_age_bands(data) ==
    LET bands == {data[i].AGE_BAND : i \in 1..Len(data)}
    IN  IF NaN \in bands /\ bands # {NaN} THEN Raises("TypeError")
        ELSE Returns(bands)

\* ['All'] + sorted(np.unique(age_band_array).astype(str).tolist()); NaN
\* reads 'nan'.
age_band_values(data) ==
    {All} \cup {IF b.t = "nan" THEN PyStr(<<"n", "a", "n">>) ELSE b :
                   b \in unique_age_bands(data).val}

\* ['All'] + the names of the counties of the VA rows.
county_values(data) ==
    {All} \cup {PyStr(data[i].COUNTY) :
                   i \in {j \in 1..Len(data) : data[j].State = <<"V", "A">>}}

\* The loaded datasets with which the script gets as far as its widgets.
Datasets ==
    {d \in {LoadDataset(f) : f \in CsvFiles} :
        unique_age_bands(d).exc = "none"}

\* The datasets DashV2.py is run on: the files of one or two of three lines.
V2Lines == {0, 3, 7}

V2Datasets ==
    {d \in {LoadDataset(f) :
                f \in ({<<>>} \cup {<<n>> : n \in V2Lines}
                         \cup {<<m, n>> : m, n \in V2Lines})
                          \cap CsvFiles} :
        unique_age_bands(d).exc = "none"}

\* A result with the cache the call leaves.
WithCache(result, store) ==
    [f \in DOMAIN result \cup {"cache"} |->
        IF f = "cache" THEN store ELSE result[f]]

\* The bound function of pn.bind, as the running script calls it when the
\* cache holds store.
BoundWith(store, classification, age_band, county) ==
    IF script = "simple_dashboard"
    THEN WithCache(update_dashboard(classification, age_band, county), store)
    ELSE IF script = "DashV2"
    THEN v2_update_dashboard(store, classification, age_band, county)
    ELSE WithCache(cd_update_dashboard(classification, age_band), store)

Bound(classification, age_band, county) ==
    BoundWith(cache, classification, age_band, county)

\* The call is within the bound of the model.
CacheFits(result) == Cardinality(DOMAIN result.cache) <= MaxCacheItems

Show(result) ==
    /\ CacheFits(result)
    /\ df' = result.df
    /\ raised' = result.raised
    /\ filtered_df' = result.filtered_df
    /\ pivot_data' = result.pivot_data
    /\ stats_box' = result.stats_box
    /\ va_counties' = result.va_counties
    /\ cache' = result.cache

\* The script has run to its last line: every selector holds 'All' and the
\* bound function has been evaluated once.
Loaded(scripts, datasets) ==
    /\ script \in scripts
    /\ df \in datasets
    /\ classification_selector = All
    /\ age_band_selector = All
    /\ county_selector = IF script \in ThreeSelectorScripts THEN All
                         ELSE PyNone
    /\ request = <<classification_selector, age_band_selector, county_selector>>
    /\ event = "load"
    /\ LET result == BoundWith(<<>>, All, All, All)
       IN  /\ raised = result.raised
           /\ filtered_df = result.filtered_df
           /\ pivot_data = result.pivot_data
           /\ stats_box = result.stats_box
           /\ va_counties = result.va_counties
           /\ cache = result.cache
    /\ Store_current_backend = "bokeh"
    /\ pc = 0
    /\ tests = <<>>

Init == Loaded(Scripts, Datasets)

\* The user picks another option of the Classification selector.
SelectClassification(value) ==
    /\ value \in classification_values(df)
    /\ value # classification_selector
    /\ classification_selector' = value
    /\ request' = <<value, age_band_selector, county_selector>>
    /\ event' = "select"
    /\ Show(Bound(value, age_band_selector, county_selector))
    /\ UNCHANGED <<compat_vars, script, age_band_selector, county_selector>>

\* The user picks another option of the Age Band selector.
SelectAgeBand(value) ==
    /\ value \in age_band_values(df)
    /\ value # age_band_selector
    /\ age_band_selector' = value
    /\ request' = <<classification_selector, value, county_selector>>
    /\ event' = "select"
    /\ Show(Bound(classification_selector, value, county_selector))
    /\ UNCHANGED <<compat_vars, script, classification_selector, county_selector>>

\* The user picks another option of the County selector.
SelectCounty(value) ==
    /\ script \in ThreeSelectorScripts
    /\ value \in county_values(df)
    /\ value # county_selector
    /\ county_selector' = value
    /\ request' = <<classification_selector, age_band_selector, value>>
    /\ event' = "select"
    /\ Show(Bound(classification_selector, age_band_selector, value))
    /\ UNCHANGED <<compat_vars, script, classification_selector, age_band_selector>>

\* The cache an evaluation of the bound function leaves.
CacheAfter(store, classification, age_band, county) ==
    IF script = "DashV2"
    THEN v2_get_filtered_data(store, df, classification, age_band,
                              county).cache
    ELSE store

\* The cache after classification_selector.value = 'All', which evaluates
\* the bound function when it changes the value.
AfterClassificationReset ==
    IF classification_selector # All
    THEN CacheAfter(cache, All, age_band_selector, county_selector)
    ELSE cache

\* The cache after age_band_selector.value = 'All' that follows.
AfterAgeBandReset(store) ==
    IF age_band_selector # All
    THEN CacheAfter(store, All, All, county_selector)
    ELSE store

\* Mutant of reset_filters: the County selector is not reset.
Mutant_reset_filters ==
    /\ script \in ThreeSelectorScripts
    /\ <<classification_selector, age_band_selector>> # <<All, All>>
    /\ classification_selector' = All
    /\ age_band_selector' = All
    /\ request' = <<All, All, county_selector>>
    /\ event' = "reset"
    /\ Show(BoundWith(AfterClassificationReset, All, All, county_selector))
    /\ UNCHANGED <<compat_vars, script, county_selector>>

\* The user clicks Reset All Filters: the three assignments in turn, each of
\* which re-evaluates the bound function when it changes its selector; the
\* evaluation that runs last is the one for ('All', 'All', 'All').
reset_filters ==
    /\ script \in ThreeSelectorScripts
    /\ <<classification_selector, age_band_selector, county_selector>>
          # <<All, All, All>>
    /\ classification_selector' = All
    /\ age_band_selector' = All
    /\ county_selector' = All
    /\ request' = <<All, All, All>>
    /\ event' = "reset"
    /\ Show(BoundWith(AfterAgeBandReset(AfterClassificationReset),
                      All, All, All))
    /\ UNCHANGED <<compat_vars, script>>

Next ==
    \/ \E value \in classification_values(df) : SelectClassification(value)
    \/ \E value \in age_band_values(df) : SelectAgeBand(value)
    \/ \E value \in county_values(df) : SelectCounty(value)
    \/ reset_filters

Spec == Init /\ [][Next]_vars

\* DashV2.py, served.
InitV2 == Loaded({"DashV2"}, V2Datasets)

SpecV2 == InitV2 /\ [][Next]_vars

----------------------------------------------------------------------------
(* The functions called directly, with arguments no selector offers.        *)

ClassificationArgs ==
    {All, PyNone, PyStr(<<"0">>), PyStr(<<"1">>), PyStr(<<" ", "1">>),
     PyStr(<<"1", ".", "0">>), PyStr(<<"x">>), PyStr(<<>>)}

AgeBandArgs == {All, PyStr(labels[1])}

CountyArgs == {All, PyStr(<<"A">>)}

\* A caller invokes update_dashboard of simple_dashboard.py.
CallUpdateDashboard(classification, age_band, county) ==
    /\ script = "simple_dashboard"
    /\ request' = <<classification, age_band, county>>
    /\ event' = "call"
    /\ Show(Bound(classification, age_band, county))
    /\ UNCHANGED <<compat_vars, script, classification_selector, age_band_selector,
                   county_selector>>

\* A caller invokes update_dashboard of create_dashboard.py.
CallUpdateDashboardCD(classification, age_band) ==
    /\ script = "create_dashboard"
    /\ request' = <<classification, age_band, PyNone>>
    /\ event' = "call"
    /\ Show(Bound(classification, age_band, PyNone))
    /\ UNCHANGED <<compat_vars, script, classification_selector, age_band_selector,
                   county_selector>>

\* The arguments of a call that leaves filter arguments out: a parameter
\* left out has its declared default, None.
DefaultedClassificationArgs == {PyNone, All, PyStr(<<"1">>)}

DefaultedArgs == {PyNone, All}

\* A caller invokes get_filtered_data of simple_dashboard.py on df.
CallGetFilteredData(selected_classification, selected_age_band, selected_county) ==
    /\ script = "simple_dashboard"
    /\ request' = <<selected_classification, selected_age_band, selected_county>>
    /\ event' = "get_filtered_data"
    /\ LET got == get_filtered_data(df, selected_classification,
                                    selected_age_band, selected_county)
       IN  /\ raised' = got.exc
           /\ filtered_df' = got.val
    /\ df' = data_after_get_filtered_data(df, selected_classification,
                                          selected_age_band, selected_county)
    /\ pivot_data' = Unbound
    /\ stats_box' = Unbound
    /\ va_counties' = Unbound
    /\ UNCHANGED <<compat_vars, script, classification_selector, age_band_selector,
                   county_selector, cache>>

NextAPI ==
    \/ \E c \in ClassificationArgs, a \in AgeBandArgs, k \in CountyArgs :
          CallUpdateDashboard(c, a, k)
    \/ \E c \in ClassificationArgs, a \in AgeBandArgs :
          CallUpdateDashboardCD(c, a)
    \/ \E c \in DefaultedClassificationArgs, a, k \in DefaultedArgs :
          CallGetFilteredData(c, a, k)

SpecAPI == Init /\ [][NextAPI]_vars

----------------------------------------------------------------------------
(* compatibility_test.py: create_compatibility_test and its six probes.     *)

\* The probes in the order they run; pc is the place of the one to run next,
\* one more when the layout is due, two more when the function has returned.
Probes == <<"test1", "test2", "test3", "test4", "test5", "test6">>

\* What a probe binds its name to: the plot, or the note of its except clause.
Plot(n) == [test |-> Probes[n], pane |-> "plot"]
FailureNote(n) == [test |-> Probes[n], pane |-> "Markdown"]

\* Whether the body of a try raises is up to the installed libraries.
Outcomes == {"created", "raised"}

\* The script is loaded up to the call at its end: hv.extension('bokeh') has
\* selected the backend, no probe has run.
InitCompat ==
    /\ script = "compatibility_test"
    /\ df = Unbound
    /\ classification_selector = PyNone
    /\ age_band_selector = PyNone
    /\ county_selector = PyNone
    /\ request = <<PyNone, PyNone, PyNone>>
    /\ raised = "none"
    /\ filtered_df = Unbound
    /\ pivot_data = Unbound
    /\ stats_box = Unbound
    /\ va_counties = Unbound
    /\ event = "load"
    /\ cache = <<>>
    /\ Store_current_backend = "bokeh"
    /\ pc = 1
    /\ tests = <<>>

\* Tests 1 to 5: a try that builds the plot, an except Exception that binds
\* the failure note instead.
RunTest(outcome) ==
    /\ script = "compatibility_test"
    /\ pc < Len(Probes)
    /\ tests' = Append(tests, IF outcome = "raised" THEN FailureNote(pc)
                              ELSE Plot(pc))
    /\ pc' = pc + 1
    /\ UNCHANGED <<dashboard_vars, Store_current_backend>>

\* Test 6: the backend is saved and switched to matplotlib, the plot is built
\* and rendered, the backend is set back; when building or rendering raises,
\* control goes to the except clause from where it was raised.
RunTest6(outcome) ==
    /\ script = "compatibility_test"
    /\ pc = Len(Probes)
    /\ LET current_backend == Store_current_backend
           switched == "matplotlib"
       IN  IF outcome = "raised"
           THEN /\ Store_current_backend' = switched
                /\ tests' = Append(tests, FailureNote(pc))
           ELSE /\ Store_current_backend' = current_backend
                /\ tests' = Append(tests, [test |-> Probes[pc],
                                           pane |-> "PNG"])
    /\ pc' = pc + 1
    /\ UNCHANGED dashboard_vars

\* The layout is built of test1 .. test6 and returned.
ReturnDashboard ==
    /\ script = "compatibility_test"
    /\ pc = Len(Probes) + 1
    /\ pc' = pc + 1
    /\ UNCHANGED <<dashboard_vars, Store_current_backend, tests>>

NextCompat ==
    \/ \E outcome \in Outcomes : RunTest(outcome)
    \/ \E outcome \in Outcomes : RunTest6(outcome)
    \/ ReturnDashboard

SpecCompat == InitCompat /\ [][NextCompat]_vars

----------------------------------------------------------------------------
(* What the claims speak of, stated on the records themselves.              *)

Simple == script = "simple_dashboard"

\* The row meets the constraint at position p of the request, 'All' and an
\* absent selector being no constraint; a classification constraint is met
\* by the rows whose classification reads as the selected text.
Meets(r, p) ==
    \/ request[p].t # "str"
    \/ request[p] = All
    \/ p = 1 /\ IntToStr(r.CLASSIFICATION) = request[p].v
    \/ p = 2 /\ r.AGE_BAND = request[p]
    \/ p = 3 /\ r.COUNTY = request[p].v

MeetsAll(r) == \A p \in 1..3 : Meets(r, p)

MeetsAllBut(r, q) == \A p \in (1..3) \ {q} : Meets(r, p)

\* data holds rows of df only, each at most once and in df's order.
IsSubsetOfDf(data) ==
    /\ \A i \in 1..Len(data) : \E j \in 1..Len(df) : data[i] = df[j]
    /\ \A i \in 1..(Len(data) - 1) : data[i].index < data[i + 1].index

\* C1: the Filtered Subset is a subset of the full set, every row of it meets
\* every active constraint, and no row of the full set that meets them all
\* is left out.
C1_FilteredSubsetExact ==
    raised = "none" =>
        /\ IsSubsetOfDf(filtered_df)
        /\ \A i \in 1..Len(filtered_df) : MeetsAll(filtered_df[i])
        /\ \A j \in 1..Len(df) :
              MeetsAll(df[j]) => \E i \in 1..Len(filtered_df) :
                                     filtered_df[i] = df[j]

\* C1 witness: two constraints are active, some rows pass and some do not.
C1_Witness ==
    /\ Simple /\ raised = "none"
    /\ request[1] # All /\ request[3] # All
    /\ Len(filtered_df) > 0 /\ Len(filtered_df) < Len(df)

\* C2: with 'All' in all three places the result is the full record set, and
\* replacing any one constraint of the request by 'All' gives the rows that
\* meet the remaining constraints.
C2_AllIsNoConstraint ==
    (Simple /\ raised = "none") =>
        /\ (request = <<All, All, All>> => filtered_df = df)
        /\ \A q \in 1..3 :
              LET relaxed == [request EXCEPT ![q] = All]
                  got == get_filtered_data(df, relaxed[1], relaxed[2],
                                           relaxed[3])
                  Remaining(r) == MeetsAllBut(r, q)
              IN  /\ got.exc = "none"
                  /\ got.val = SelectSeq(df, Remaining)

\* C2 witness: a county constraint that excludes rows which 'All' admits.
C2_Witness ==
    /\ Simple /\ raised = "none"
    /\ request[3] # All
    /\ Len(filtered_df) > 0 /\ Len(filtered_df) < Len(df)
    /\ LET Remaining(r) == MeetsAllBut(r, 3)
       IN  Len(SelectSeq(df, Remaining)) > Len(filtered_df)

\* The classification arguments that are neither 'All' nor an integer
\* literal: None, a decimal fraction, a letter, the empty string.
NotConvertible ==
    {PyNone, PyStr(<<"1", ".", "0">>), PyStr(<<"x">>), PyStr(<<>>)}

\* C3: a call whose classification argument is neither 'All' nor convertible
\* to an integer ends in an exception that reaches the caller, binds no
\* Filtered Subset nor any table, and leaves the full record set as it was.
C3_ConversionErrorPropagates ==
    [][request'[1] \in NotConvertible =>
          /\ raised' \in {"ValueError", "TypeError"}
          /\ filtered_df' = Unbound
          /\ pivot_data' = Unbound
          /\ df' = df]_vars

\* C3 witness: a call with a non-numeric classification has raised.
C3_Witness ==
    /\ request[1] = PyStr(<<"x">>)
    /\ raised = "ValueError"
    /\ Len(df) > 0

\* The sum of the numerators of the cells of one row of the table.
RECURSIVE SumCells(_, _)
SumCells(row, columns) ==
    IF columns = {} THEN 0
    ELSE LET b == CHOOSE x \in columns : TRUE
         IN  row[b].num + SumCells(row, columns \ {b})

\* The rows of data that carry an age band.
Banded(data, c) ==
    {i \in 1..Len(data) : /\ data[i].CLASSIFICATION = c
                          /\ data[i].AGE_BAND.t = "str"}

\* C4: the cells of a classification's row sum to 100 when the subset holds a
\* record of that classification in some age band; a classification with no
\* such record (none at all, or only records outside every band) has no cell
\* that is not 0.
C4_RowsSumTo100 ==
    raised = "none" =>
        \A c \in Classifications :
            IF Banded(filtered_df, c) # {}
            THEN /\ c \in pivot_data.index
                 /\ \A b \in pivot_data.columns :
                       pivot_data.values[c][b].den > 0
                 /\ \A b \in pivot_data.columns :
                       SumCells(pivot_data.values[c], pivot_data.columns)
                           = 100 * pivot_data.values[c][b].den
            ELSE \/ c \notin pivot_data.index
                 \/ SumCells(pivot_data.values[c], pivot_data.columns) = 0

\* C4 witness: a classification whose records fall into two age bands.
C4_Witness ==
    /\ raised = "none"
    /\ Cardinality(pivot_data.columns) = 2
    /\ \E c \in pivot_data.index :
          \A b \in pivot_data.columns : pivot_data.values[c][b].num > 0

\* C5: the table has a cell for every classification and every age band that
\* occur in the subset, and the cell of a pair no record has is 0.
C5_CompleteGrid ==
    raised = "none" =>
        \A i, j \in 1..Len(filtered_df) :
            LET c == filtered_df[i].CLASSIFICATION
                band == filtered_df[j].AGE_BAND
            IN  band.t = "str" =>
                    /\ c \in DOMAIN pivot_data.values
                    /\ band.v \in DOMAIN pivot_data.values[c]
                    /\ (\A k \in 1..Len(filtered_df) :
                           ~(/\ filtered_df[k].CLASSIFICATION = c
                             /\ filtered_df[k].AGE_BAND = band))
                       => pivot_data.values[c][band.v].num = 0

\* C5 witness: a pair of a classification and a band that no record has.
C5_Witness ==
    /\ raised = "none"
    /\ \E c \in pivot_data.index, b \in pivot_data.columns :
          pivot_data.values[c][b].num = 0

\* The identifier of a record's geographic unit, as the boundary reference
\* writes identifiers.
UnitOf(r) == IntToStr(r.COUNTY_CODE)

\* The rows of the state-restricted Filtered Subset in the unit geoid.
UnitRecords(geoid) ==
    {i \in 1..Len(filtered_df) : /\ filtered_df[i].State = <<"V", "A">>
                                 /\ UnitOf(filtered_df[i]) = geoid}

\* The rows of the Geographic Aggregate for the unit geoid.
UnitRows(geoid) ==
    {r \in va_counties : r.GEOID = geoid \/ r.COUNTY_CODE = PyStr(geoid)}

\* C6: the Geographic Aggregate has exactly one row for every unit of the
\* boundary reference and as many rows as the reference has units.
C6_OneRowPerBoundaryUnit ==
    (Simple /\ raised = "none") =>
        /\ \A b \in BoundaryUnits :
              Cardinality({r \in va_counties : r.GEOID = b.GEOID}) = 1
        /\ Cardinality(va_counties)
              = Cardinality({b.GEOID : b \in BoundaryUnits})

\* C7: every unit that occurs in a record of the state-restricted Filtered
\* Subset has a row in the Geographic Aggregate.
C7_RecordUnitsAppear ==
    (Simple /\ raised = "none") =>
        \A i \in 1..Len(filtered_df) :
            filtered_df[i].State = <<"V", "A">>
                => UnitRows(UnitOf(filtered_df[i])) # {}

\* C8: a unit with records in the state-restricted Filtered Subset has its
\* number of records as TOTAL_COUNT, the number of those of classification 1
\* as CLASS_1_COUNT and their ratio in percent, to one decimal, as
\* CLASS_1_PERCENT.
C8_UnitCounts ==
    (Simple /\ raised = "none") =>
        \A i \in 1..Len(filtered_df) :
            LET geoid == UnitOf(filtered_df[i])
                total == Cardinality(UnitRecords(geoid))
                ones == Cardinality({k \in UnitRecords(geoid) :
                                        filtered_df[k].CLASSIFICATION = 1})
            IN  filtered_df[i].State = <<"V", "A">> =>
                    /\ UnitRows(geoid) # {}
                    /\ \A r \in UnitRows(geoid) :
                          /\ r.TOTAL_COUNT = PyFloat(total)
                          /\ r.CLASS_1_COUNT = PyFloat(ones)
                          /\ r.CLASS_1_PERCENT.t = "float"
                          /\ 2 * (r.CLASS_1_PERCENT.v * total - 1000 * ones)
                                <= total
                          /\ 2 * (1000 * ones - r.CLASS_1_PERCENT.v * total)
                                <= total

\* C9: a boundary unit without a record in the Filtered Subset is listed with
\* total count 0, class-1 count 0 and percentage 0, and no percentage of the
\* aggregate is NaN.
C9_EmptyUnitsAreZero ==
    (Simple /\ raised = "none") =>
        /\ \A b \in BoundaryUnits :
              (\A i \in 1..Len(filtered_df) : UnitOf(filtered_df[i]) # b.GEOID)
                => /\ \E r \in va_counties : r.GEOID = b.GEOID
                   /\ \A r \in va_counties :
                         r.GEOID = b.GEOID =>
                             /\ r.TOTAL_COUNT = PyFloat(0)
                             /\ r.CLASS_1_COUNT = PyFloat(0)
                             /\ r.CLASS_1_PERCENT = PyFloat(0)
        /\ \A r \in va_counties : r.CLASS_1_PERCENT.t = "float"

\* C9 witness: the county filter has removed every record of a boundary unit
\* that has records in the full set, and the unit is listed with zeros.
C9_Witness ==
    /\ Simple /\ raised = "none"
    /\ request[3] # All
    /\ Len(filtered_df) > 0
    /\ \E b \in BoundaryUnits :
          /\ \E j \in 1..Len(df) : UnitOf(df[j]) = b.GEOID
          /\ \A i \in 1..Len(filtered_df) : UnitOf(filtered_df[i]) # b.GEOID
          /\ \E r \in va_counties :
                r.GEOID = b.GEOID /\ r.TOTAL_COUNT = PyFloat(0)

\* The text of a percentage of ones in total, to one decimal: the tenths
\* nearest to the exact ratio.
ShownPercent(ones, total) ==
    LET tenths == CHOOSE t \in 0..1000 :
                     IF total = 0 THEN t = 0
                     ELSE /\ 2 * (t * total - 1000 * ones) <= total
                          /\ 2 * (1000 * ones - t * total) <= total
    IN  IntToStr(tenths \div 10) \o <<".">> \o IntToStr(tenths % 10)
            \o <<"%">>

\* The number of records of the Filtered Subset with classification 1.
NumberOfOnes ==
    Cardinality({i \in 1..Len(filtered_df) :
                    filtered_df[i].CLASSIFICATION = 1})

\* C10 as stated: the statistics box puts out the total record count, the
\* class-1 count and the percentage.
C10_BoxShowsTotal ==
    (Simple /\ raised = "none") =>
        /\ stats_box.panes.total_class_1 = IntToStr(NumberOfOnes)
        /\ stats_box.panes.class_1_percentage
              = ShownPercent(NumberOfOnes, Len(filtered_df))
        /\ \E f \in DOMAIN stats_box.panes \ {"title"} :
              stats_box.panes[f] = IntToStr(Len(filtered_df))

\* C10 amended: create_stats_box computes the total record count, the
\* class-1 count and the percentage count/total x 100 (0 for the empty
\* subset); the box it returns shows the class-1 count and the percentage to
\* one decimal.
C10_StatsComputed ==
    (Simple /\ raised = "none") =>
        /\ stats_box.total_count = Len(filtered_df)
        /\ stats_box.ones_count = NumberOfOnes
        /\ stats_box.ones_percentage.den > 0
        /\ stats_box.ones_percentage.num * Len(filtered_df)
              = 100 * NumberOfOnes * stats_box.ones_percentage.den
        /\ (Len(filtered_df) = 0 => stats_box.ones_percentage.num = 0)
        /\ DOMAIN stats_box.panes
              = {"title", "total_class_1", "class_1_percentage"}
        /\ stats_box.panes.total_class_1 = IntToStr(NumberOfOnes)
        /\ stats_box.panes.class_1_percentage
              = ShownPercent(NumberOfOnes, Len(filtered_df))

\* C10 witness: a subset of which a part, not all, has classification 1.
C10_Witness ==
    /\ Simple /\ raised = "none"
    /\ request # <<All, All, All>>
    /\ stats_box.total_count = 2
    /\ stats_box.ones_count = 1

\* The tables an unmemoized run of the pipeline makes of the full record set
\* for the selection of the last call.
Unmemoized == update_dashboard(request[1], request[2], request[3])

\* C11: every call puts out what the unmemoized pipeline of simple_dashboard
\* makes of its selection alone, whatever was selected before, and every
\* frame the cache holds is the frame the unmemoized get_filtered_data
\* returns for the arguments it is filed under.
C11_NoHiddenState ==
    /\ raised = "none"
    /\ raised = Unmemoized.raised
    /\ filtered_df = Unmemoized.filtered_df
    /\ pivot_data = Unmemoized.pivot_data
    /\ stats_box = Unmemoized.stats_box
    /\ va_counties = create_va_heatmap(Unmemoized.filtered_df)
    /\ \A key \in DOMAIN cache :
          /\ get_filtered_data(key[1], key[2], key[3], key[4]).exc = "none"
          /\ cache[key]
                = get_filtered_data(key[1], key[2], key[3], key[4]).val
          /\ key = CacheKey(df, request[1], request[2], request[3])
                => filtered_df = cache[key]

\* C11 witness: DashV2 is back at ('All', 'All', 'All') after another
\* selection; the frame of two records it shows comes out of the cache.
C11_Witness ==
    /\ script = "DashV2"
    /\ event = "reset"
    /\ CacheKey(df, All, All, All) \in DOMAIN cache
    /\ Cardinality(DOMAIN cache) >= 2
    /\ Len(filtered_df) = 2

\* The label 'L-(L+4)' with L = 5 * floor(age / 5).
BandLabel(age) ==
    IntToStr(5 * (age \div 5)) \o <<"-">> \o IntToStr(5 * (age \div 5) + 4)

\* C12: every record of the full set carries a band, one of the twenty
\* labels, and it is the label 'L-(L+4)' of its age.
C12_EveryRecordBanded ==
    \A i \in 1..Len(df) :
        /\ df[i].AGE_BAND.t = "str"
        /\ \E j \in 1..Len(labels) : df[i].AGE_BAND.v = labels[j]
        /\ df[i].AGE_BAND.v = BandLabel(df[i].AGE)

C14_DisplayFollowsSelectors ==
    /\ raised = "none"
    /\ request = <<classification_selector, age_band_selector, county_selector>>
    /\ filtered_df = SelectSeq(df, MeetsAll)
    /\ pivot_data = crosstab(filtered_df)
    /\ script \in ThreeSelectorScripts =>
          /\ stats_box = create_stats_box(filtered_df)
          /\ va_counties = IF script = "DashV2"
                           THEN create_va_heatmap(filtered_df)
                           ELSE create_va_map(filtered_df)
    /\ event = "reset" =>
          /\ classification_selector = All
          /\ age_band_selector = All
          /\ county_selector = All
          /\ filtered_df = df

\* C14 witness: Reset was clicked with filters set, and the display is back
\* to the two records of the full set.
C14_Witness ==
    /\ Simple
    /\ event = "reset"
    /\ Len(filtered_df) = 2
    /\ stats_box.total_count = 2
    /\ filtered_df[1].COUNTY # filtered_df[2].COUNTY

\* C15: a call of get_filtered_data that leaves filter arguments at their
\* declared default returns the records that meet the constraints given, the
\* full record set when none is given.
C15_DefaultIsNoConstraint ==
    (event = "get_filtered_data" /\ \E p \in 1..3 : request[p] = PyNone) =>
        /\ raised = "none"
        /\ filtered_df = SelectSeq(df, MeetsAll)
        /\ request = <<PyNone, PyNone, PyNone>> => filtered_df = df

\* The colour of a percentage given in tenths, by the five bands of 20.
BandColour(tenths) ==
    IF tenths < 200 THEN "lightblue"
    ELSE IF tenths < 400 THEN "skyblue"
    ELSE IF tenths < 600 THEN "royalblue"
    ELSE IF tenths < 800 THEN "mediumblue"
    ELSE "darkblue"

\* C16: a county of the map is lightgray if and only if no record of the
\* Filtered Subset lies in it, and a county with records has the colour of
\* the band of 20 its percentage falls in.
C16_LightgrayIffNoRecord ==
    (Simple /\ raised = "none") =>
        \A r \in va_counties :
            /\ r.map_color = "lightgray" <=> UnitRecords(r.GEOID) = {}
            /\ UnitRecords(r.GEOID) # {} =>
                   /\ r.CLASS_1_PERCENT.t = "float"
                   /\ r.map_color = BandColour(r.CLASS_1_PERCENT.v)

\* create_compatibility_test has returned.
Returned == script = "compatibility_test" /\ pc = Len(Probes) + 2

\* C17: when create_compatibility_test has returned, every probe has run and
\* left its pane, a plot or a failure note, whichever probes raised, and the
\* backend selected is the one selected before the call.
C17_ProbesIsolated ==
    Returned =>
        /\ Len(tests) = Len(Probes)
        /\ \A n \in 1..Len(Probes) : tests[n].test = Probes[n]
        /\ Store_current_backend = "bokeh"
=============================================================================
